---- MODULE Spec2Model ----
(***************************************************************************)
(* The portfolio backend of Backend/main.py: six tables behind FastAPI     *)
(* handlers.  Every request opens its own SQLAlchemy session (get_db),     *)
(* runs its handler statement by statement against the store and closes    *)
(* the session.  Sync handlers run on FastAPI's thread pool, so the        *)
(* statements of different requests interleave (Spec); SeqSpec is the same *)
(* machine with one request in flight at a time.                           *)
(***************************************************************************)
EXTENDS Integers, Sequences, FiniteSets, TLC

\* ---------------------------------------------------------------- bounds
\* Requests issued in one behaviour of Spec, whose requests interleave.
MaxRequests == 2
\* Requests issued in one behaviour of SeqSpec, one request at a time.
MaxSeqRequests == 4
\* The largest identifier a DELETE names.
MaxId == 2
\* Requests in flight at the same time (threads of the pool that are used).
MaxInFlight == 2

\* ------------------------------------------------------------- resources
Singletons == {"profile", "education"}

Collections == {"experience", "projects", "skill_categories", "certifications"}

Resources == Singletons \cup Collections

\* Python's None (SQL NULL, JSON null).
None == "None"

\* The result of a query that finds no row.
NoRow == [id |-> 0]

\* The annotation of every field of the xxxCreate schemas.
Annotations(res) ==
  CASE res = "profile" ->
         [name |-> "str", phone |-> "str", email |-> "str",
          linkedin_url |-> "HttpUrl", github_url |-> "HttpUrl",
          portfolio_url |-> "Optional[HttpUrl]"]
    [] res = "education" ->
         [institution |-> "str", degree |-> "str", cgpa |-> "float",
          duration |-> "str", location |-> "str"]
    [] res = "experience" ->
         [company |-> "str", role |-> "str", duration |-> "str",
          description |-> "List[str]"]
    [] res = "projects" ->
         [title |-> "str", technologies |-> "List[str]",
          description |-> "List[str]"]
    [] res = "skill_categories" ->
         [category_name |-> "str", skills |-> "List[str]"]
    [] res = "certifications" ->
         [issuer |-> "str", title |-> "str"]

Fields(res) == DOMAIN Annotations(res)

\* Columns declared unique=True.
UniqueColumns(res) ==
  CASE res = "profile" -> {"email"}
    [] res = "skill_categories" -> {"category_name"}
    [] OTHER -> {}

\* Request bodies that pass validation (JSON).  cgpa is written in tenths.
Bodies(res) ==
  CASE res = "profile" ->
         {[name |-> "A", phone |-> "1", email |-> "a@x.com",
           linkedin_url |-> "https://li.com/a", github_url |-> "https://gh.com/a"],
          [name |-> "A", phone |-> "1", email |-> "b@x.com",
           linkedin_url |-> "https://li.com/a", github_url |-> "https://gh.com/a",
           portfolio_url |-> "https://a.dev/"]}
    [] res = "education" ->
         {[institution |-> "U1", degree |-> "BTech", cgpa |-> 91,
           duration |-> "2022-2026", location |-> "Kolkata"],
          [institution |-> "U1", degree |-> "MTech", cgpa |-> 85,
           duration |-> "2022-2026", location |-> "Kolkata"]}
    [] res = "experience" ->
         {[company |-> "C1", role |-> "Intern", duration |-> "2024",
           description |-> <<"d1", "d2">>]}
    [] res = "projects" ->
         {[title |-> "P1", technologies |-> <<"X">>, description |-> <<"d">>]}
    [] res = "skill_categories" ->
         {[category_name |-> "Languages", skills |-> <<"Python">>],
          [category_name |-> "Languages", skills |-> <<"Go", "C">>],
          [category_name |-> "Tools", skills |-> << >>]}
    [] res = "certifications" ->
         {[issuer |-> "I1", title |-> "T1"]}

NoBody == [none |-> TRUE]

\* Identifiers a DELETE may name.
Ids == 1..MaxId

\* ------------------------------------------------- schemas and conversions
\* schema.model_dump() of the validated xxxCreate model, as Python objects:
\* an omitted Optional field is its default None, an HttpUrl field is a Url
\* object (not a str), every other field keeps its JSON value.
model_dump(res, body) ==
  [f \in Fields(res) |->
     IF f \notin DOMAIN body
       THEN [type |-> "NoneType", val |-> None]
       ELSE CASE Annotations(res)[f] \in {"HttpUrl", "Optional[HttpUrl]"} ->
                   [type |-> "Url", val |-> body[f]]
              [] Annotations(res)[f] = "float" -> [type |-> "float", val |-> body[f]]
              [] Annotations(res)[f] = "List[str]" -> [type |-> "list", val |-> body[f]]
              [] OTHER -> [type |-> "str", val |-> body[f]]]

\* Python types the database driver binds to a String, Float or
\* ARRAY(String) column; an object of any other type cannot be adapted.
Adaptable == {"str", "float", "list", "NoneType"}

CanBind(values, fields) == \A f \in fields : values[f].type \in Adaptable

\* A stored row: the columns and the primary key.
WithId(values, id) ==
  [f \in (DOMAIN values) \cup {"id"} |-> IF f = "id" THEN id ELSE values[f].val]

\* ------------------------------------------------------------------ store
\* query.first(): no ORDER BY, the first row as the table holds them.
first(rows) == IF Len(rows) = 0 THEN NoRow ELSE rows[1]

\* query.filter(model_db.id == item_id).first()
filter_first(rows, item_id) ==
  IF \E i \in 1..Len(rows) : rows[i].id = item_id
    THEN rows[CHOOSE i \in 1..Len(rows) : rows[i].id = item_id]
    ELSE NoRow

\* A unique index refuses the values for a row other than `self`.
UniqueViolation(res, rows, values, fields, self) ==
  \E f \in UniqueColumns(res) \cap fields :
    \E i \in 1..Len(rows) : rows[i].id # self /\ rows[i][f] = values[f].val

\* Insert with the identifier taken from the row count, not from the sequence.
Insert_id_from_count(res, rows, sq, values) ==
  IF ~CanBind(values, DOMAIN values)
    THEN [error |-> "ProgrammingError", rows |-> rows, sq |-> sq, row |-> NoRow]
    ELSE IF UniqueViolation(res, rows, values, DOMAIN values, 0)
      THEN [error |-> "IntegrityError", rows |-> rows, sq |-> sq + 1, row |-> NoRow]
      ELSE [error |-> "", rows |-> Append(rows, WithId(values, Len(rows) + 1)),
            sq |-> sq + 1, row |-> WithId(values, Len(rows) + 1)]

\* db.add(db_item); db.commit(); db.refresh(db_item): the INSERT takes the
\* next value of the table's id sequence (also when the unique index then
\* refuses the row) and appends the row.  A parameter the driver cannot
\* adapt fails before the statement is sent.
Insert(res, rows, sq, values) ==
  IF ~CanBind(values, DOMAIN values)
    THEN [error |-> "ProgrammingError", rows |-> rows, sq |-> sq, row |-> NoRow]
    ELSE IF UniqueViolation(res, rows, values, DOMAIN values, 0)
      THEN [error |-> "IntegrityError", rows |-> rows, sq |-> sq + 1, row |-> NoRow]
      ELSE [error |-> "", rows |-> Append(rows, WithId(values, sq + 1)),
            sq |-> sq + 1, row |-> WithId(values, sq + 1)]

\* Changed with the setattr loop left out: nothing is written.
Changed_nothing(values, loaded) == {}

\* The attributes setattr changed with respect to the loaded row: the unit
\* of work writes only those.
Changed(values, loaded) ==
  {f \in DOMAIN values : values[f].type = "Url" \/ values[f].val # loaded[f]}

\* Update written as "delete the loaded row, insert the new one" with the
\* insert forgotten.
Update_dropping_row(res, rows, values, loaded) ==
  [error |-> "", rows |-> SelectSeq(rows, LAMBDA r : r.id # loaded.id),
   row |-> WithId(values, loaded.id)]

\* setattr(...) for every key; db.commit(); db.refresh(db_item): an UPDATE of
\* the changed columns of the loaded row, then the row as stored.
Update(res, rows, values, loaded) ==
  LET ch == Changed(values, loaded)
      written == [i \in 1..Len(rows) |->
                    IF rows[i].id = loaded.id
                      THEN [f \in DOMAIN rows[i] |->
                              IF f \in ch THEN values[f].val ELSE rows[i][f]]
                      ELSE rows[i]]
  IN  IF ~CanBind(values, ch)
        THEN [error |-> "ProgrammingError", rows |-> rows, row |-> NoRow]
        ELSE IF UniqueViolation(res, rows, values, ch, loaded.id)
          THEN [error |-> "IntegrityError", rows |-> rows, row |-> NoRow]
          ELSE [error |-> "", rows |-> written,
                row |-> filter_first(written, loaded.id)]

\* Delete without its WHERE clause.
Delete_every_row(rows, loaded) == << >>

\* db.delete(db_item); db.commit(): DELETE ... WHERE id = db_item.id.
Delete(rows, loaded) == SelectSeq(rows, LAMBDA r : r.id # loaded.id)

\* ------------------------------------------------------------------ state
VARIABLES
  table,    \* table[res]: the rows of the table, in storage order
  seq,      \* seq[res]: the last value of the table's id sequence
  req,      \* req[s]: the request worker s is handling
  session,  \* session[s]: worker s holds an open session
  issued,   \* requests issued so far
  last      \* the request that finished last

vars == <<table, seq, req, session, issued, last>>

Workers == 1..MaxInFlight

Idle ==
  [pc |-> "idle", kind |-> "", res |-> "", body |-> NoBody, item_id |-> 0,
   loaded |-> NoRow, status |-> 0, out |-> << >>]

Init ==
  /\ table = [res \in Resources |-> << >>]
  /\ seq = [res \in Resources |-> 0]
  /\ req = [s \in Workers |-> Idle]
  /\ session = [s \in Workers |-> FALSE]
  /\ issued = 0
  /\ last = Idle

\* The requests of the HTTP surface (section "API Endpoints"): POST, GET and
\* PUT on the singletons; POST, GET and DELETE /{id} on the collections.
Requests ==
  {[Idle EXCEPT !.kind = "POST", !.res = res, !.body = b] :
     res \in Resources, b \in UNION {Bodies(r) : r \in Resources}}
  \cup {[Idle EXCEPT !.kind = "GET", !.res = res] : res \in Resources}
  \cup {[Idle EXCEPT !.kind = "PUT", !.res = res, !.body = b] :
          res \in Singletons, b \in UNION {Bodies(r) : r \in Singletons}}
  \cup {[Idle EXCEPT !.kind = "DELETE", !.res = res, !.item_id = i] :
          res \in Collections, i \in Ids}

\* ---------------------------------------------------------------- actions
Returns(s, status, out) ==
  req' = [req EXCEPT ![s].pc = "returned", ![s].status = status, ![s].out = out]

\* An exception no handler catches: the framework answers 500.
Raises(s) == Returns(s, 500, << >>)

\* get_db up to the yield: the request gets a session of its own, on the
\* first free worker.  `limit` is the number of requests that may be in
\* flight, `budget` the number of requests of the behaviour.
get_db(s, limit, budget) ==
  /\ req[s].pc = "idle"
  /\ \A w \in Workers : w < s => req[w].pc # "idle"
  /\ issued < budget
  /\ Cardinality({w \in Workers : req[w].pc # "idle"}) < limit
  /\ \E r \in Requests :
       /\ r.kind \in {"POST", "PUT"} => r.body \in Bodies(r.res)
       /\ req' = [req EXCEPT ![s] = [r EXCEPT !.pc = "handler"]]
  /\ session' = [session EXCEPT ![s] = TRUE]
  /\ issued' = issued + 1
  /\ UNCHANGED <<table, seq, last>>

At(s, kind, resources) ==
  /\ req[s].pc \in {"handler", "commit"}
  /\ req[s].kind = kind
  /\ req[s].res \in resources

\* singleton_create without the existence check.
singleton_create_unchecked(s, res) ==
  /\ At(s, "POST", {res})
  /\ LET r == Insert(res, table[res], seq[res], model_dump(res, req[s].body))
     IN  /\ table' = [table EXCEPT ![res] = r.rows]
         /\ seq' = [seq EXCEPT ![res] = r.sq]
         /\ IF r.error = "" THEN Returns(s, 200, <<r.row>>) ELSE Raises(s)
  /\ UNCHANGED <<session, issued, last>>

\* create_profile / create_education: the existence check, then the insert.
singleton_create(s, res) ==
  /\ At(s, "POST", {res})
  /\ IF req[s].pc = "handler"
       THEN /\ IF first(table[res]) # NoRow
                 THEN Returns(s, 400, << >>)
                 ELSE req' = [req EXCEPT ![s].pc = "commit"]
            /\ UNCHANGED <<table, seq>>
       ELSE LET r == Insert(res, table[res], seq[res], model_dump(res, req[s].body))
            IN  /\ table' = [table EXCEPT ![res] = r.rows]
                /\ seq' = [seq EXCEPT ![res] = r.sq]
                /\ IF r.error = "" THEN Returns(s, 200, <<r.row>>) ELSE Raises(s)
  /\ UNCHANGED <<session, issued, last>>

\* get_profile / get_education: the row, or null.
singleton_get(s, res) ==
  /\ At(s, "GET", {res})
  /\ Returns(s, 200, IF first(table[res]) = NoRow THEN << >> ELSE <<first(table[res])>>)
  /\ UNCHANGED <<table, seq, session, issued, last>>

\* singleton_update that creates the row when it finds none (an upsert).
singleton_update_upsert(s, res) ==
  /\ At(s, "PUT", {res})
  /\ IF req[s].pc = "handler"
       THEN IF first(table[res]) = NoRow
              THEN LET r == Insert(res, table[res], seq[res],
                                   model_dump(res, req[s].body))
                   IN  /\ table' = [table EXCEPT ![res] = r.rows]
                       /\ seq' = [seq EXCEPT ![res] = r.sq]
                       /\ IF r.error = "" THEN Returns(s, 200, <<r.row>>) ELSE Raises(s)
              ELSE /\ req' = [req EXCEPT ![s].pc = "commit",
                                         ![s].loaded = first(table[res])]
                   /\ UNCHANGED <<table, seq>>
       ELSE LET r == Update(res, table[res], model_dump(res, req[s].body), req[s].loaded)
            IN  /\ table' = [table EXCEPT ![res] = r.rows]
                /\ seq' = seq
                /\ IF r.error = "" THEN Returns(s, 200, <<r.row>>) ELSE Raises(s)
  /\ UNCHANGED <<session, issued, last>>

\* update_profile / update_education: the query, then setattr and commit.
singleton_update(s, res) ==
  /\ At(s, "PUT", {res})
  /\ IF req[s].pc = "handler"
       THEN /\ IF first(table[res]) = NoRow
                 THEN Returns(s, 404, << >>)
                 ELSE req' = [req EXCEPT ![s].pc = "commit",
                                         ![s].loaded = first(table[res])]
            /\ table' = table
       ELSE LET r == Update(res, table[res], model_dump(res, req[s].body), req[s].loaded)
            IN  /\ table' = [table EXCEPT ![res] = r.rows]
                /\ IF r.error = "" THEN Returns(s, 200, <<r.row>>) ELSE Raises(s)
  /\ UNCHANGED <<seq, session, issued, last>>

create_profile(s) == singleton_create(s, "profile")

get_profile(s) == singleton_get(s, "profile")

update_profile(s) == singleton_update(s, "profile")

create_education(s) == singleton_create(s, "education")

get_education(s) == singleton_get(s, "education")

update_education(s) == singleton_update(s, "education")

\* create_item, called by add_experience, add_project, add_skill_category
\* and add_certification.
create_item(s) ==
  /\ At(s, "POST", Collections)
  /\ LET res == req[s].res
         r == Insert(res, table[res], seq[res], model_dump(res, req[s].body))
     IN  /\ table' = [table EXCEPT ![res] = r.rows]
         /\ seq' = [seq EXCEPT ![res] = r.sq]
         /\ IF r.error = "" THEN Returns(s, 200, <<r.row>>) ELSE Raises(s)
  /\ UNCHANGED <<session, issued, last>>

\* get_items, called by the four get_all_... handlers.
get_items(s) ==
  /\ At(s, "GET", Collections)
  /\ Returns(s, 200, table[req[s].res])
  /\ UNCHANGED <<table, seq, session, issued, last>>

\* delete_item, called by the four delete_... handlers: the query by id,
\* then the delete and its commit.
delete_item(s) ==
  /\ At(s, "DELETE", Collections)
  /\ LET res == req[s].res
     IN  IF req[s].pc = "handler"
           THEN /\ IF filter_first(table[res], req[s].item_id) = NoRow
                     THEN Returns(s, 404, << >>)
                     ELSE req' = [req EXCEPT
                                    ![s].pc = "commit",
                                    ![s].loaded = filter_first(table[res], req[s].item_id)]
                /\ table' = table
           ELSE /\ table' = [table EXCEPT ![res] = Delete(table[res], req[s].loaded)]
                /\ Returns(s, 200, << >>)
  /\ UNCHANGED <<seq, session, issued, last>>

\* db.close() after the yield without try/finally: skipped when the handler raises.
db_close_on_success(s) ==
  [session EXCEPT ![s] = IF req[s].status = 200 THEN FALSE ELSE session[s]]

\* get_db after the yield: `finally: db.close()`, whatever the handler did.
db_close(s) == [session EXCEPT ![s] = FALSE]

get_db_finally(s) ==
  /\ req[s].pc = "returned"
  /\ session' = db_close(s)
  /\ last' = req[s]
  /\ req' = [req EXCEPT ![s] = Idle]
  /\ UNCHANGED <<table, seq, issued>>

Handler(s) ==
  \/ create_profile(s)
  \/ get_profile(s)
  \/ update_profile(s)
  \/ create_education(s)
  \/ get_education(s)
  \/ update_education(s)
  \/ create_item(s)
  \/ get_items(s)
  \/ delete_item(s)
  \/ get_db_finally(s)

Next == \E s \in Workers : get_db(s, MaxInFlight, MaxRequests) \/ Handler(s)

Spec == Init /\ [][Next]_vars

\* One request at a time: a client that awaits each response.
SeqNext == \E s \in Workers : get_db(s, 1, MaxSeqRequests) \/ Handler(s)

SeqSpec == Init /\ [][SeqNext]_vars

\* ----------------------------------------------------------------- claims
Present(res) == Len(table[res]) >= 1

Returned(s, kind) == req[s].pc = "returned" /\ req[s].kind = kind

\* Worker s takes a step of its handler.
Steps(s, kind, pc) == req[s].kind = kind /\ req[s].pc = pc /\ req'[s] # req[s]

\* The record a create or an update of `body` stores under identifier `id`.
Stored(res, body, id) ==
  [f \in Fields(res) \cup {"id"} |->
     IF f = "id" THEN id ELSE IF f \in DOMAIN body THEN body[f] ELSE None]

RowSet(rows) == {rows[i] : i \in 1..Len(rows)}

\* C1: with one request at a time, Profile and Education never hold more than
\* one row, and a create that finds a row present answers 400 AlreadyExists
\* and leaves the tables as they are.
C1_SingletonInvariant ==
  /\ [](\A res \in Singletons : Len(table[res]) <= 1)
  /\ [][\A s \in Workers :
          (Steps(s, "POST", "handler") /\ req[s].res \in Singletons
             /\ Present(req[s].res))
          => (req'[s].pc = "returned" /\ req'[s].status = 400
                /\ table' = table)]_vars

C1_Witness ==
  \E s \in Workers :
    /\ Returned(s, "POST") /\ req[s].res = "education" /\ req[s].status = 400
    /\ Len(table["education"]) = 1
    /\ table["education"][1] # Stored("education", req[s].body, 1)

\* C2: two creates of one singleton that both passed the existence check
\* never both succeed, and the table never holds two rows.
C2_FirstWriterWins ==
  \A res \in Singletons :
    /\ Len(table[res]) <= 1
    /\ ~ \E s, w \in Workers :
           /\ s # w
           /\ Returned(s, "POST") /\ req[s].res = res /\ req[s].status = 200
           /\ Returned(w, "POST") /\ req[w].res = res /\ req[w].status = 200

\* C3: a create of a SkillCategory whose category_name is already stored
\* answers 400 and leaves the table unchanged, whatever its skills are.
C3_DuplicateCategoryIs400 ==
  [][\A s \in Workers :
       (Steps(s, "POST", "handler") /\ req[s].res = "skill_categories"
          /\ \E row \in RowSet(table["skill_categories"]) :
               row.category_name = req[s].body.category_name)
       => (req'[s].status = 400 /\ table' = table)]_vars

\* C4: with one request at a time, an update that finds the singleton present
\* answers 200, keeps the row's identifier, leaves exactly that one row, whose
\* every field is the request's, and the same update applied a second time in
\* a row leaves the stored state as the first one left it.
C4_UpdateOverwritesIdempotent ==
  \A s \in Workers :
    (Returned(s, "PUT") /\ req[s].loaded # NoRow)
    => LET res == req[s].res
           row == Stored(res, req[s].body, req[s].loaded.id)
       IN  /\ req[s].status = 200
           /\ table[res] = <<row>>
           /\ req[s].out = <<row>>
           /\ (last.kind = "PUT" /\ last.res = res /\ last.body = req[s].body
                 /\ last.status = 200)
              => table[res] = last.out

C4_Witness ==
  \E s \in Workers :
    /\ Returned(s, "PUT") /\ req[s].res = "education" /\ req[s].status = 200
    /\ last.kind = "PUT" /\ last.res = "education" /\ last.body = req[s].body
    /\ last.status = 200
    /\ last.loaded # last.out[1]
    /\ table["education"] = <<Stored("education", req[s].body, 1)>>

\* C5: an update that finds the singleton absent answers 404 and writes
\* nothing, and a read that finds it absent answers 200 with no content.
C5_UpdateAbsentNotFound ==
  [][\A s \in Workers :
       /\ (Steps(s, "PUT", "handler") /\ ~Present(req[s].res))
          => (req'[s].pc = "returned" /\ req'[s].status = 404
                /\ table' = table /\ seq' = seq)
       /\ (Steps(s, "GET", "handler") /\ req[s].res \in Singletons
             /\ ~Present(req[s].res))
          => (req'[s].pc = "returned" /\ req'[s].status = 200
                /\ req'[s].out = << >>)]_vars

C5_Witness ==
  \E s \in Workers :
    /\ last.kind = "PUT" /\ last.res = "education" /\ last.status = 404
    /\ Returned(s, "GET") /\ req[s].res = "education" /\ req[s].out = << >>
    /\ ~Present("education")

\* C6: with one request at a time, a delete whose identifier no row of the
\* collection has answers 404 and leaves the tables unchanged; any other
\* delete answers 200 and removes exactly the row of that identifier, the
\* other rows staying as and where they were; the list that follows a
\* successful delete holds no row of that identifier.
C6_DeleteExactlyExisting ==
  [][\A s \in Workers :
       LET res == req[s].res
           ids == {row.id : row \in RowSet(table[res])}
       IN  /\ (Steps(s, "DELETE", "handler") /\ req[s].item_id \notin ids)
              => (req'[s].pc = "returned" /\ req'[s].status = 404
                    /\ table' = table)
           /\ (Steps(s, "DELETE", "handler") /\ req[s].item_id \in ids)
              => (req'[s].pc = "commit" /\ table' = table)
           /\ Steps(s, "DELETE", "commit")
              => /\ req'[s].pc = "returned" /\ req'[s].status = 200
                 /\ req[s].item_id \in ids
                 /\ Len(table'[res]) = Len(table[res]) - 1
                 /\ \A r \in Resources \ {res} : table'[r] = table[r]
                 /\ \E k \in 1..Len(table[res]) :
                      /\ table[res][k].id = req[s].item_id
                      /\ \A i \in 1..Len(table'[res]) :
                           table'[res][i] = table[res][IF i < k THEN i ELSE i + 1]
           /\ (Steps(s, "GET", "handler") /\ res \in Collections
                 /\ last.kind = "DELETE" /\ last.res = res /\ last.status = 200)
              => /\ \A row \in RowSet(req'[s].out) : row.id # last.item_id
                 /\ req'[s].out = table[res]]_vars

C6_Witness ==
  \E s \in Workers :
    /\ Returned(s, "GET") /\ req[s].res \in Collections
    /\ last.kind = "DELETE" /\ last.res = req[s].res /\ last.status = 200
    /\ last.item_id = 1
    /\ Len(req[s].out) = 1 /\ req[s].out[1].id = 2

\* C7: a create of a valid body that the handler does not refuse answers 200
\* with the request's fields (an omitted portfolio_url as null) and an
\* assigned identifier, and the read or list that follows returns that record.
C7_CreateThenRead ==
  \A s \in Workers :
    /\ (Returned(s, "POST") /\ req[s].status # 400
          /\ (req[s].status = 200
                \/ ~ \E f \in UniqueColumns(req[s].res) :
                       \E row \in RowSet(table[req[s].res]) : row[f] = req[s].body[f]))
       => /\ req[s].status = 200
          /\ Len(req[s].out) = 1
          /\ req[s].out[1].id >= 1
          /\ req[s].out[1] = Stored(req[s].res, req[s].body, req[s].out[1].id)
    /\ (Returned(s, "GET") /\ last.kind = "POST" /\ last.res = req[s].res
          /\ last.status = 200)
       => /\ last.out[1] \in RowSet(req[s].out)
          /\ req[s].res \in Singletons => req[s].out = last.out

C9_NoWayBackToAbsent ==
  [][\A res \in Singletons : Present(res) => Present(res)']_vars

C9_Witness ==
  /\ Present("education")
  /\ last.kind = "POST" /\ last.res = "education" /\ last.status = 200
  /\ \E s \in Workers :
       Returned(s, "PUT") /\ req[s].res = "education" /\ req[s].status = 200

\* C10: a worker holds an open session exactly while it handles a request: a
\* request gets a session of its own, and none stays open once the request
\* has ended, whatever its outcome.
C10_SessionReleased ==
  \A s \in Workers : session[s] <=> req[s].pc # "idle"

C10_Witness ==
  /\ last.status = 500
  /\ \A s \in Workers : ~session[s] /\ req[s].pc = "idle"
====
